---- MODULE Spec2Model ----
(***************************************************************************)
(* DtlsSrtpTransport (src/dtlssrtptransport.cpp): the SRTP media transport  *)
(* stacked on a DTLS transport.  The model has the two ends of one DTLS     *)
(* connection, "client" and "server"; both ends are built from the same     *)
(* sources (the same TLS backend) and a completed handshake gives both the  *)
(* same exported keying material.                                           *)
(*                                                                          *)
(* A message is a record                                                    *)
(*    first : the value of its first byte (meaningless when size = 0)       *)
(*    size  : its length in bytes                                           *)
(*    seq   : the RTP sequence number carried in its header                 *)
(*    tag   : NoTag for a packet that was never protected, else the key it  *)
(*            was protected with and whether the authentication tag still   *)
(*            matches the bytes (FALSE once a byte was corrupted)           *)
(* A message_ptr is <<>> (nullptr) or <<m>>.                                *)
(***************************************************************************)
EXTENDS Integers, Sequences, FiniteSets, TLC

\* ---------------------------------------------------------------- bounds
\* RTP sequence numbers used by the packets: 1..MaxSeq
MaxSeq == 2
\* exported keying materials tried: Material(0) .. Material(MaxMat)
MaxMat == 1

\* ---------------------------------------------------- program constants
SRTP_AES_128_KEY_LEN == 16
SRTP_SALT_LEN == 14
SRTP_AES_ICM_128_KEY_LEN_WSALT == 30
SRTP_MAX_TRAILER_LEN == 144
\* length of the authentication tag of the AES128_CM_HMAC_SHA1_80 policy
SRTP_AUTH_TAG_LEN == 10
\* length of a fixed RTP header: srtp_protect/srtp_unprotect reject less
RTP_HEADER_LEN == 12

materialLen == SRTP_AES_ICM_128_KEY_LEN_WSALT * 2

Peers == {"client", "server"}

\* DtlsTransport::mIsClient, the role in the DTLS handshake
mIsClient(t) == t = "client"

Seqs == 1..MaxSeq

NoKey == <<>>
NoTag == [key |-> NoKey, ok |-> FALSE]

\* the i-th exported keying material: 60 bytes; Material(0) is all zero,
\* Material(1) has 60 different bytes
Material(k) == [i \in 1..materialLen |-> ((i - 1) * k) % 256]

Materials == {Material(k) : k \in 0..MaxMat}

\* memcpy(dst, src + off, len) seen as a value: bytes off .. off+len-1
\* (offsets count from 0 as in the source, sequences from 1)
Slice(M, off, len) == [i \in 1..len |-> M[off + i]]

VARIABLES
  useGnutls,   \* USE_GNUTLS of the build
  material,    \* what the TLS session exports under "EXTRACTOR-dtls_srtp"
  mInitDone,   \* [Peers -> BOOLEAN]
  mSrtpIn,     \* [Peers -> srtp_t]
  mSrtpOut,    \* [Peers -> srtp_t]
  last,        \* what the last call did (its observable effects)
  life         \* [Peers -> the phase of the object's life and the log of the
               \*  srtp_create, stop and srtp_dealloc made for it]

vars == <<useGnutls, material, mInitDone, mSrtpIn, mSrtpOut, last, life>>

\* ------------------------------------------------------------- messages
Resize(m, n) == [m EXCEPT !.size = n]

\* the first-byte values at the edges of the ranges of RFC 5764 5.1.2
EdgeBytes == {0, 19, 20, 63, 64, 127, 128, 191, 192, 255}

\* ------------------------------------------------------ libsrtp sessions
\* srtp_create(&session, nullptr): a session with no stream.  tmpl is the key
\* of the wildcard (template) stream, list the keys of the streams added for
\* one SSRC, rdb the replay database (sequence numbers already processed).
srtp_create == [tmpl |-> NoKey, list |-> <<>>, rdb |-> {}]

\* the key a session processes packets with
StreamKey(ctx) ==
  IF ctx.tmpl # NoKey THEN ctx.tmpl
  ELSE IF ctx.list # <<>> THEN ctx.list[Len(ctx.list)]
  ELSE NoKey

\* srtp_add_stream(session, &policy).  fault: the library fails for a reason
\* of its own (allocation).  A session takes one wildcard stream: a second
\* one is srtp_err_status_bad_param and leaves the session as it was.
srtp_add_stream(ctx, policy, fault) ==
  IF fault THEN [status |-> "alloc_fail", ctx |-> ctx]
  ELSE IF policy.ssrc \in {"ssrc_any_inbound", "ssrc_any_outbound"}
  THEN IF ctx.tmpl # NoKey
       THEN [status |-> "bad_param", ctx |-> ctx]
       ELSE [status |-> "ok", ctx |-> [ctx EXCEPT !.tmpl = policy.key]]
  ELSE [status |-> "ok", ctx |-> [ctx EXCEPT !.list = Append(@, policy.key)]]

\* what libsrtp may answer to srtp_protect for reasons the model does not
\* track: "ok", its replay check of the packets sent (the same index sent
\* again) and a failure of its cipher
ProtectFaults == {"ok", "replay_fail", "cipher_fail"}

\* srtp_protect(session, data, &len): data is the buffer, len the length of
\* the RTP packet in it.  On success the packet is encrypted and followed by
\* the authentication tag and len grows by the tag; on failure the packet is
\* not produced.  The sender's replay database is not kept: fault stands for
\* its verdict.
srtp_protect(ctx, data, len, fault) ==
  LET fail(st) == [status |-> st, ctx |-> ctx, data |-> data, len |-> len]
  IN IF len < RTP_HEADER_LEN THEN fail("bad_param")
     ELSE IF StreamKey(ctx) = NoKey THEN fail("no_ctx")
     ELSE IF fault # "ok" THEN fail(fault)
     ELSE [status |-> "ok",
           ctx |-> ctx,
           data |-> [data EXCEPT !.tag = [key |-> StreamKey(ctx), ok |-> TRUE]],
           len |-> len + SRTP_AUTH_TAG_LEN]

\* srtp_unprotect(session, data, &len): checks the replay database, then the
\* authentication tag under the session's key; on success the tag is removed,
\* len shrinks by it and the sequence number is entered in the replay
\* database; on failure nothing changes.
srtp_unprotect(ctx, data, len) ==
  LET fail(st) == [status |-> st, ctx |-> ctx, data |-> data, len |-> len]
  IN IF len < RTP_HEADER_LEN THEN fail("bad_param")
     ELSE IF StreamKey(ctx) = NoKey THEN fail("no_ctx")
     ELSE IF data.seq \in ctx.rdb THEN fail("replay_fail")
     ELSE IF data.tag.key # StreamKey(ctx) \/ ~data.tag.ok THEN fail("auth_fail")
     ELSE [status |-> "ok",
           ctx |-> [ctx EXCEPT !.rdb = @ \cup {data.seq}],
           data |-> [data EXCEPT !.tag = NoTag],
           len |-> len - SRTP_AUTH_TAG_LEN]

\* ---------------------------------------------------------- the handlers
\* What a call did: its return ("true", "false", "void" or "throw"), the
\* messages it passed to DtlsTransport::incoming (dtls), to mSrtpRecvCallback
\* (recv) and to outgoing (out), how often it called srtp_protect,
\* srtp_unprotect, the keying-material export and srtp_add_stream, the
\* status of the last library call it made, and what it left in the local
\* buffers material, clientSessionKey and serverSessionKey (scratch).
NoScratch == [material |-> <<>>, clientSessionKey |-> <<>>, serverSessionKey |-> <<>>]

Quiet ==
  [ret |-> "void", dtls |-> <<>>, recv |-> <<>>, out |-> <<>>, protect |-> 0,
   unprotect |-> 0, exports |-> 0, adds |-> 0, status |-> "none",
   scratch |-> NoScratch]

\* protectAndSend without the last resize: the packet goes out with the room
\* reserved for the trailer
protectAndSend_NoTruncate(srtpOut, m, fault) ==
  LET size == m.size
      buf == Resize(m, size + SRTP_MAX_TRAILER_LEN)
      r == srtp_protect(srtpOut, buf, size, fault)
  IN IF r.status # "ok"
     THEN [obs |-> [Quiet EXCEPT !.ret = "throw", !.protect = 1,
                                 !.status = r.status],
           srtpOut |-> r.ctx]
     ELSE [obs |-> [Quiet EXCEPT !.ret = "true", !.protect = 1,
                                 !.status = r.status, !.out = <<r.data>>],
           srtpOut |-> r.ctx]

\* protectAndSend answering a failure of srtp_protect with false, as sendMedia
\* answers a call made before the keys are there
protectAndSend_ReturnFalse(srtpOut, m, fault) ==
  LET size == m.size
      buf == Resize(m, size + SRTP_MAX_TRAILER_LEN)
      r == srtp_protect(srtpOut, buf, size, fault)
  IN IF r.status # "ok"
     THEN [obs |-> [Quiet EXCEPT !.ret = "false", !.protect = 1,
                                 !.status = r.status],
           srtpOut |-> r.ctx]
     ELSE [obs |-> [Quiet EXCEPT !.ret = "true", !.protect = 1,
                                 !.status = r.status,
                                 !.out = <<Resize(r.data, r.len)>>],
           srtpOut |-> r.ctx]

\* sendMedia once the keys are there: room for the trailer, srtp_protect, a
\* throw on any failure, else the packet cut to the length srtp_protect gave
\* and passed to outgoing
protectAndSend(srtpOut, m, fault) ==
  LET size == m.size
      buf == Resize(m, size + SRTP_MAX_TRAILER_LEN)
      r == srtp_protect(srtpOut, buf, size, fault)
  IN IF r.status # "ok"
     THEN [obs |-> [Quiet EXCEPT !.ret = "throw", !.protect = 1,
                                 !.status = r.status],
           srtpOut |-> r.ctx]
     ELSE [obs |-> [Quiet EXCEPT !.ret = "true", !.protect = 1,
                                 !.status = r.status,
                                 !.out = <<Resize(r.data, r.len)>>],
           srtpOut |-> r.ctx]

\* sendMedia without the test of mInitDone
sendMedia_NoReadyCheck(initDone, srtpOut, message, fault) ==
  IF message = <<>>
  THEN [obs |-> [Quiet EXCEPT !.ret = "false"], srtpOut |-> srtpOut]
  ELSE protectAndSend(srtpOut, message[1], fault)

\* DtlsSrtpTransport::sendMedia(message) on a transport with the given
\* mInitDone and mSrtpOut
sendMedia(initDone, srtpOut, message, fault) ==
  IF message = <<>>
  THEN [obs |-> [Quiet EXCEPT !.ret = "false"], srtpOut |-> srtpOut]
  ELSE IF ~initDone
  THEN [obs |-> [Quiet EXCEPT !.ret = "false"], srtpOut |-> srtpOut]
  ELSE protectAndSend(srtpOut, message[1], fault)

\* Classify with > 20 for >= 20
Classify_OffByOne(value) ==
  IF value >= 128 /\ value <= 191 THEN "dtls"
  ELSE IF value > 20 /\ value <= 63 THEN "srtp"
  ELSE "unknown"

\* the demultiplexing of RFC 5764 5.1.2 as the code does it, on the value of
\* the first byte
Classify(value) ==
  IF value >= 128 /\ value <= 191 THEN "dtls"
  ELSE IF value >= 20 /\ value <= 63 THEN "srtp"
  ELSE "unknown"

\* incomingSrtp without the resize: the callback gets the packet with the
\* length it arrived with
incomingSrtp_NoTruncate(srtpIn, message) ==
  LET r == srtp_unprotect(srtpIn, message, message.size)
  IN IF r.status # "ok"
     THEN [obs |-> [Quiet EXCEPT !.unprotect = 1, !.status = r.status],
           srtpIn |-> r.ctx]
     ELSE [obs |-> [Quiet EXCEPT !.unprotect = 1, !.status = r.status,
                                 !.recv = <<r.data>>],
           srtpIn |-> r.ctx]

\* incomingSrtp throwing on a failure of srtp_unprotect, as sendMedia does on
\* a failure of srtp_protect
incomingSrtp_Throw(srtpIn, message) ==
  LET r == srtp_unprotect(srtpIn, message, message.size)
  IN IF r.status # "ok"
     THEN [obs |-> [Quiet EXCEPT !.ret = "throw", !.unprotect = 1,
                                 !.status = r.status],
           srtpIn |-> r.ctx]
     ELSE [obs |-> [Quiet EXCEPT !.unprotect = 1, !.status = r.status,
                                 !.recv = <<Resize(r.data, r.len)>>],
           srtpIn |-> r.ctx]

\* the SRTP branch of incoming: srtp_unprotect, a warning and a return on
\* failure, else the packet cut to the length srtp_unprotect gave and passed
\* to mSrtpRecvCallback
incomingSrtp(srtpIn, message) ==
  LET r == srtp_unprotect(srtpIn, message, message.size)
  IN IF r.status # "ok"
     THEN [obs |-> [Quiet EXCEPT !.unprotect = 1, !.status = r.status],
           srtpIn |-> r.ctx]
     ELSE [obs |-> [Quiet EXCEPT !.unprotect = 1, !.status = r.status,
                                 !.recv = <<Resize(r.data, r.len)>>],
           srtpIn |-> r.ctx]

\* incoming once the keys are there
demultiplex(srtpIn, message) ==
  IF message.size = 0 THEN [obs |-> Quiet, srtpIn |-> srtpIn]
  ELSE IF Classify(message.first) = "dtls"
  THEN [obs |-> [Quiet EXCEPT !.dtls = <<message>>], srtpIn |-> srtpIn]
  ELSE IF Classify(message.first) = "srtp"
  THEN incomingSrtp(srtpIn, message)
  ELSE [obs |-> Quiet, srtpIn |-> srtpIn]

\* incoming without the bypass
incoming_NoBypass(initDone, srtpIn, message) == demultiplex(srtpIn, message)

\* DtlsSrtpTransport::incoming(message) on a transport with the given
\* mInitDone and mSrtpIn
incoming(initDone, srtpIn, message) ==
  IF ~initDone
  THEN [obs |-> [Quiet EXCEPT !.dtls = <<message>>], srtpIn |-> srtpIn]
  ELSE demultiplex(srtpIn, message)

\* gnutls::check(ret, message): throws when the call it checks failed
gnutls_check(ok) == IF ok THEN "void" ELSE "throw"

\* DtlsSrtpTransport::postCreation(); ok is whether the TLS backend accepted
\* the profile.  With GnuTLS gnutls::check decides; with OpenSSL the condition
\* of the if is (call, "Failed to set SRTP profile"): the comma operator
\* drops what the call returned and leaves the string literal, a pointer
\* that is never null.
postCreation(gnutls, ok) ==
  LET answer == IF ok THEN "ok" ELSE "fail"
      condition == TRUE
  IN IF gnutls
     THEN [Quiet EXCEPT !.ret = gnutls_check(ok), !.status = answer]
     ELSE IF condition
     THEN [Quiet EXCEPT !.ret = "throw", !.status = answer]
     ELSE [Quiet EXCEPT !.status = answer]

\* gnutls_srtp_get_keys: the four datums point into the material, which the
\* extractor lays out as client key, server key, client salt, server salt
gnutls_srtp_get_keys ==
  [clientKey |-> 0,
   serverKey |-> SRTP_AES_128_KEY_LEN,
   clientSalt |-> 2 * SRTP_AES_128_KEY_LEN,
   serverSalt |-> 2 * SRTP_AES_128_KEY_LEN + SRTP_SALT_LEN]

\* the OpenSSL branch: clientKey = material, clientSalt = clientKey + key
\* length, serverKey = material + key-with-salt length, serverSalt =
\* serverKey + key length (offsets into material)
OpensslPointers ==
  [clientKey |-> 0,
   clientSalt |-> 0 + SRTP_AES_128_KEY_LEN,
   serverKey |-> SRTP_AES_ICM_128_KEY_LEN_WSALT,
   serverSalt |-> SRTP_AES_ICM_128_KEY_LEN_WSALT + SRTP_AES_128_KEY_LEN]

\* what the export can answer: "ok", "fail" (the call reports an error), and
\* with GnuTLS a datum of an unexpected size
ExportResults(gnutls) ==
  IF gnutls
  THEN {"ok", "fail", "clientKeyLen", "clientSaltLen", "serverKeyLen",
        "serverSaltLen"}
  ELSE {"ok", "fail"}

\* clientSessionKey: memcpy of the key, then of the salt
clientSessionKey(M, ptr) ==
  Slice(M, ptr.clientKey, SRTP_AES_128_KEY_LEN)
    \o Slice(M, ptr.clientSalt, SRTP_SALT_LEN)

\* serverSessionKey: memcpy of the key, then of the salt
serverSessionKey(M, ptr) ==
  Slice(M, ptr.serverKey, SRTP_AES_128_KEY_LEN)
    \o Slice(M, ptr.serverSalt, SRTP_SALT_LEN)

\* the inbound policy with the keys of the two roles exchanged
inboundPolicy_Swapped(isClient, ck, sk) ==
  [profile |-> "aes_cm_128_hmac_sha1_80", ssrc |-> "ssrc_any_inbound",
   key |-> IF isClient THEN ck ELSE sk]

\* the inbound policy for one SSRC (0) instead of the wildcard
inboundPolicy_Specific(isClient, ck, sk) ==
  [profile |-> "aes_cm_128_hmac_sha1_80", ssrc |-> "ssrc_specific",
   key |-> IF isClient THEN sk ELSE ck]

\* srtp_policy_t inbound
inboundPolicy(isClient, ck, sk) ==
  [profile |-> "aes_cm_128_hmac_sha1_80", ssrc |-> "ssrc_any_inbound",
   key |-> IF isClient THEN sk ELSE ck]

\* the outbound policy with the keys of the two roles exchanged
outboundPolicy_Swapped(isClient, ck, sk) ==
  [profile |-> "aes_cm_128_hmac_sha1_80", ssrc |-> "ssrc_any_outbound",
   key |-> IF isClient THEN sk ELSE ck]

\* srtp_policy_t outbound
outboundPolicy(isClient, ck, sk) ==
  [profile |-> "aes_cm_128_hmac_sha1_80", ssrc |-> "ssrc_any_outbound",
   key |-> IF isClient THEN ck ELSE sk]

\* postHandshake past its first test: the export, the two session keys, the
\* two policies and the two srtp_add_stream, then mInitDone = true.  exp is
\* the answer of the export, faultIn and faultOut whether libsrtp fails to
\* allocate the inbound and the outbound stream.
deriveKeys(isClient, gnutls, M, srtpIn, srtpOut, exp, faultIn, faultOut) ==
  LET same(o) == [obs |-> o, initDone |-> FALSE, srtpIn |-> srtpIn,
                  srtpOut |-> srtpOut]
  IN IF exp = "fail"
     THEN same([Quiet EXCEPT !.ret = "throw", !.exports = 1])
     ELSE IF exp # "ok"
     THEN same([Quiet EXCEPT !.ret = "throw", !.exports = 1,
                             !.scratch = [NoScratch EXCEPT !.material = M]])
     ELSE LET ptr == IF gnutls THEN gnutls_srtp_get_keys ELSE OpensslPointers
              ck == clientSessionKey(M, ptr)
              sk == serverSessionKey(M, ptr)
              ri == srtp_add_stream(srtpIn, inboundPolicy(isClient, ck, sk), faultIn)
              ro == srtp_add_stream(srtpOut, outboundPolicy(isClient, ck, sk), faultOut)
              left == [material |-> M, clientSessionKey |-> ck,
                       serverSessionKey |-> sk]
          IN IF ri.status # "ok"
             THEN same([Quiet EXCEPT !.ret = "throw", !.exports = 1, !.adds = 1,
                                     !.status = ri.status, !.scratch = left])
             ELSE IF ro.status # "ok"
             THEN [obs |-> [Quiet EXCEPT !.ret = "throw", !.exports = 1,
                                         !.adds = 2, !.status = ro.status,
                                         !.scratch = left],
                   initDone |-> FALSE, srtpIn |-> ri.ctx, srtpOut |-> srtpOut]
             ELSE [obs |-> [Quiet EXCEPT !.exports = 1, !.adds = 2,
                                         !.status = ro.status, !.scratch = left],
                   initDone |-> TRUE, srtpIn |-> ri.ctx, srtpOut |-> ro.ctx]

\* postHandshake without its first test
postHandshake_NoGuard(initDone, isClient, gnutls, M, srtpIn, srtpOut, exp, faultIn, faultOut) ==
  deriveKeys(isClient, gnutls, M, srtpIn, srtpOut, exp, faultIn, faultOut)

\* postHandshake setting mInitDone before the derivation instead of after it
postHandshake_FlagFirst(initDone, isClient, gnutls, M, srtpIn, srtpOut, exp, faultIn, faultOut) ==
  IF initDone
  THEN [obs |-> Quiet, initDone |-> initDone, srtpIn |-> srtpIn, srtpOut |-> srtpOut]
  ELSE [deriveKeys(isClient, gnutls, M, srtpIn, srtpOut, exp, faultIn, faultOut)
          EXCEPT !.initDone = TRUE]

\* postHandshake going on after an export that failed (a test of the
\* return value that lets the failure through)
postHandshake_IgnoreExportFailure(initDone, isClient, gnutls, M, srtpIn, srtpOut, exp, faultIn, faultOut) ==
  IF initDone
  THEN [obs |-> Quiet, initDone |-> initDone, srtpIn |-> srtpIn, srtpOut |-> srtpOut]
  ELSE deriveKeys(isClient, gnutls, M, srtpIn, srtpOut, "ok", faultIn, faultOut)

\* postHandshake setting mInitDone between the two srtp_add_stream: the flag
\* is up as soon as the inbound stream is added
postHandshake_FlagOnPartial(initDone, isClient, gnutls, M, srtpIn, srtpOut, exp, faultIn, faultOut) ==
  IF initDone
  THEN [obs |-> Quiet, initDone |-> initDone, srtpIn |-> srtpIn, srtpOut |-> srtpOut]
  ELSE LET r == deriveKeys(isClient, gnutls, M, srtpIn, srtpOut, exp, faultIn, faultOut)
       IN [r EXCEPT !.initDone = (r.obs.adds = 2)]

\* DtlsSrtpTransport::postHandshake() on a transport with the given fields
postHandshake(initDone, isClient, gnutls, M, srtpIn, srtpOut, exp, faultIn, faultOut) ==
  IF initDone
  THEN [obs |-> Quiet, initDone |-> initDone, srtpIn |-> srtpIn, srtpOut |-> srtpOut]
  ELSE deriveKeys(isClient, gnutls, M, srtpIn, srtpOut, exp, faultIn, faultOut)

\* the constructor without the srtp_dealloc(mSrtpIn) before its second throw
constructor_Leak(failIn, failOut) ==
  IF failIn THEN [ret |-> "throw", log |-> <<>>]
  ELSE IF failOut THEN [ret |-> "throw", log |-> <<"create_in">>]
  ELSE [ret |-> "void", log |-> <<"create_in", "create_out">>]

\* DtlsSrtpTransport::DtlsSrtpTransport: srtp_create of mSrtpIn, then of
\* mSrtpOut; failIn and failOut are whether libsrtp fails to create them.
\* log has the sessions created and released, in order.
constructor(failIn, failOut) ==
  IF failIn THEN [ret |-> "throw", log |-> <<>>]
  ELSE IF failOut THEN [ret |-> "throw", log |-> <<"create_in", "dealloc_in">>]
  ELSE [ret |-> "void", log |-> <<"create_in", "create_out">>]

\* DtlsSrtpTransport::~DtlsSrtpTransport: stop(), then srtp_dealloc of both
destructor == <<"stop", "dealloc_in", "dealloc_out">>

\* ------------------------------------------------------- the inputs tried
\* the messages handed to sendMedia: RTP packets of a header and 8 bytes of
\* payload, and one that is shorter than an RTP header
SendMessages ==
  {[first |-> b, size |-> RTP_HEADER_LEN + 8, seq |-> q, tag |-> NoTag] :
     b \in {20, 128}, q \in Seqs}
    \cup {[first |-> 128, size |-> 4, seq |-> 1, tag |-> NoTag]}

\* the session keys the two ends of this build derive from the material
KeysOf(gnutls, M) ==
  LET ptr == IF gnutls THEN gnutls_srtp_get_keys ELSE OpensslPointers
  IN {clientSessionKey(M, ptr), serverSessionKey(M, ptr)}

\* datagrams arriving from the network: the empty one, short ones with any
\* edge value as first byte, and the packets srtp_protect makes of the
\* SendMessages under either key, as sent or (those of the SRTP branch) with
\* a corrupted byte
InMessages(gnutls, M) ==
  {[first |-> 0, size |-> 0, seq |-> 1, tag |-> NoTag]}
    \cup {[first |-> b, size |-> 1, seq |-> 1, tag |-> NoTag] : b \in EdgeBytes}
    \cup {[first |-> b, size |-> RTP_HEADER_LEN + 8 + SRTP_AUTH_TAG_LEN, seq |-> q,
           tag |-> [key |-> k, ok |-> o]] :
            b \in {20, 128}, q \in Seqs, k \in KeysOf(gnutls, M), o \in {TRUE}}
    \cup {[first |-> 20, size |-> RTP_HEADER_LEN + 8 + SRTP_AUTH_TAG_LEN, seq |-> q,
           tag |-> [key |-> k, ok |-> FALSE]] :
            q \in Seqs, k \in KeysOf(gnutls, M)}

\* what the TLS backend and libsrtp answer during one postHandshake: every
\* answer of the export, and with a good export each stream addition failing
Backends(gnutls) ==
  {[exp |-> e, faultIn |-> FALSE, faultOut |-> FALSE] : e \in ExportResults(gnutls)}
    \cup {[exp |-> "ok", faultIn |-> TRUE, faultOut |-> FALSE],
          [exp |-> "ok", faultIn |-> FALSE, faultOut |-> TRUE]}

\* ------------------------------------------------------------ the actions
\* the two transports as their constructors leave them
Init ==
  /\ useGnutls \in BOOLEAN
  /\ material \in Materials
  /\ mInitDone = [t \in Peers |-> FALSE]
  /\ mSrtpIn = [t \in Peers |-> srtp_create]
  /\ mSrtpOut = [t \in Peers |-> srtp_create]
  /\ last = [op |-> "none", t |-> "client", arg |-> <<>>, obs |-> Quiet]
  /\ life = [t \in Peers |-> [phase |-> "alive", log |-> constructor(FALSE, FALSE).log]]

SendMedia(t, message, fault) ==
  LET r == sendMedia(mInitDone[t], mSrtpOut[t], message, fault)
  IN /\ life[t].phase = "alive"
     /\ mSrtpOut' = [mSrtpOut EXCEPT ![t] = r.srtpOut]
     /\ last' = [op |-> "sendMedia", t |-> t, arg |-> message, obs |-> r.obs]
     /\ UNCHANGED <<useGnutls, material, mInitDone, mSrtpIn, life>>

Incoming(t, message) ==
  LET r == incoming(mInitDone[t], mSrtpIn[t], message)
  IN /\ life[t].phase = "alive"
     /\ mSrtpIn' = [mSrtpIn EXCEPT ![t] = r.srtpIn]
     /\ last' = [op |-> "incoming", t |-> t, arg |-> <<message>>, obs |-> r.obs]
     /\ UNCHANGED <<useGnutls, material, mInitDone, mSrtpOut, life>>

PostHandshake(t, exp, faultIn, faultOut) ==
  LET r == postHandshake(mInitDone[t], mIsClient(t), useGnutls, material,
                         mSrtpIn[t], mSrtpOut[t], exp, faultIn, faultOut)
  IN /\ life[t].phase = "alive"
     /\ mInitDone' = [mInitDone EXCEPT ![t] = r.initDone]
     /\ mSrtpIn' = [mSrtpIn EXCEPT ![t] = r.srtpIn]
     /\ mSrtpOut' = [mSrtpOut EXCEPT ![t] = r.srtpOut]
     /\ last' = [op |-> "postHandshake", t |-> t,
                 arg |-> <<[exp |-> exp, faultIn |-> faultIn, faultOut |-> faultOut]>>,
                 obs |-> r.obs]
     /\ UNCHANGED <<useGnutls, material, life>>

PostCreation(t, ok) ==
  /\ life[t].phase = "alive"
  /\ last' = [op |-> "postCreation", t |-> t, arg |-> <<>>,
              obs |-> postCreation(useGnutls, ok)]
  /\ UNCHANGED <<useGnutls, material, mInitDone, mSrtpIn, mSrtpOut, life>>

Next ==
  \/ \E t \in Peers, m \in {<<>>} \cup {<<x>> : x \in SendMessages}, f \in ProtectFaults :
       SendMedia(t, m, f)
  \/ \E t \in Peers, m \in InMessages(useGnutls, material) : Incoming(t, m)
  \/ \E t \in Peers, b \in Backends(useGnutls) :
       PostHandshake(t, b.exp, b.faultIn, b.faultOut)
  \/ \E t \in Peers, ok \in BOOLEAN : PostCreation(t, ok)

Spec == Init /\ [][Next]_vars

\* ------------------------------------------- the life of the two objects
\* no transport is constructed yet
InitLife ==
  /\ useGnutls \in BOOLEAN
  /\ material \in Materials
  /\ mInitDone = [t \in Peers |-> FALSE]
  /\ mSrtpIn = [t \in Peers |-> srtp_create]
  /\ mSrtpOut = [t \in Peers |-> srtp_create]
  /\ last = [op |-> "none", t |-> "client", arg |-> <<>>, obs |-> Quiet]
  /\ life = [t \in Peers |-> [phase |-> "unborn", log |-> <<>>]]

\* the constructor: when it throws there is no object, and its destructor
\* never runs
Construct(t, failIn, failOut) ==
  LET r == constructor(failIn, failOut)
  IN /\ life[t].phase = "unborn"
     /\ life' = [life EXCEPT ![t] =
                   [phase |-> IF r.ret = "throw" THEN "failed" ELSE "alive",
                    log |-> r.log]]
     /\ mInitDone' = [mInitDone EXCEPT ![t] = FALSE]
     /\ mSrtpIn' = [mSrtpIn EXCEPT ![t] = srtp_create]
     /\ mSrtpOut' = [mSrtpOut EXCEPT ![t] = srtp_create]
     /\ last' = [op |-> "constructor", t |-> t, arg |-> <<>>,
                 obs |-> [Quiet EXCEPT !.ret = r.ret]]
     /\ UNCHANGED <<useGnutls, material>>

\* the destructor of a constructed transport
Destroy(t) ==
  /\ life[t].phase = "alive"
  /\ life' = [life EXCEPT ![t] = [phase |-> "dead", log |-> life[t].log \o destructor]]
  /\ last' = [op |-> "destructor", t |-> t, arg |-> <<>>, obs |-> Quiet]
  /\ UNCHANGED <<useGnutls, material, mInitDone, mSrtpIn, mSrtpOut>>

\* the messages tried while the objects come and go: the packets of the SRTP
\* branch that srtp_protect makes, and the RTP packets that start with 20
LifeInMessages(gnutls, M) ==
  {m \in InMessages(gnutls, M) : m.first = 20 /\ m.tag.ok}

LifeSendMessages == {m \in SendMessages : m.first = 20}

NextLife ==
  \/ \E t \in Peers, fi \in BOOLEAN, fo \in BOOLEAN : Construct(t, fi, fo)
  \/ \E t \in Peers : Destroy(t)
  \/ \E t \in Peers, m \in LifeSendMessages : SendMedia(t, <<m>>, "ok")
  \/ \E t \in Peers, m \in LifeInMessages(useGnutls, material) : Incoming(t, m)
  \/ \E t \in Peers, b \in Backends(useGnutls) :
       PostHandshake(t, b.exp, b.faultIn, b.faultOut)

SpecLife == InitLife /\ [][NextLife]_vars

\* ---------------------------------------------------------------- claims
\* the message of the last call of sendMedia or incoming
Arg == last.arg[1]

\* the last call was op on peer t
Did(op) == last.op = op

\* C1: a call of incoming made while mInitDone is false forwards its packet
\* exactly once to DtlsTransport::incoming, whatever its first byte and also
\* when it is empty, and calls neither srtp_unprotect nor mSrtpRecvCallback.
\* (incoming leaves mInitDone alone, so its value after the call is the one
\* the call saw.)
C1_BypassBeforeKeys ==
  (Did("incoming") /\ ~mInitDone[last.t]) =>
     /\ last.obs.dtls = <<Arg>>
     /\ last.obs.unprotect = 0
     /\ last.obs.recv = <<>>

\* a protected packet with a first byte of the SRTP branch was bypassed
C1_Witness ==
  /\ Did("incoming") /\ ~mInitDone[last.t]
  /\ Arg.first = 20 /\ Arg.size > 0 /\ Arg.tag.ok
  /\ last.obs.dtls = <<Arg>>

C3_SendBeforeKeys ==
  [][(last'.op = "sendMedia") =>
       /\ ~mInitDone[last'.t] =>
            /\ last'.obs.ret = "false"
            /\ last'.obs.protect = 0
            /\ last'.obs.out = <<>>
            /\ mInitDone' = mInitDone
            /\ mSrtpIn' = mSrtpIn
            /\ mSrtpOut' = mSrtpOut
       /\ (mInitDone[last'.t] /\ last'.arg # <<>>) =>
            /\ last'.obs.protect = 1
            /\ last'.obs.ret \in {"true", "throw"}]_vars

\* a message was refused by a transport without keys
C3_Witness ==
  /\ Did("sendMedia") /\ ~mInitDone[last.t]
  /\ last.arg # <<>> /\ Arg.size >= RTP_HEADER_LEN
  /\ last.obs.ret = "false"

\* C4: sendMedia called while mInitDone is true, with srtp_protect
\* succeeding, calls srtp_protect once, passes one datagram to outgoing,
\* whose length is the one srtp_protect returned (the packet and the
\* authentication tag, not the room reserved for the trailer), and returns
\* true.
C4_SendProtected ==
  (Did("sendMedia") /\ mInitDone[last.t] /\ last.obs.status = "ok") =>
     /\ last.obs.protect = 1
     /\ Len(last.obs.out) = 1
     /\ last.obs.out[1].size = Arg.size + SRTP_AUTH_TAG_LEN
     /\ last.obs.out[1].size # Arg.size + SRTP_MAX_TRAILER_LEN
     /\ last.obs.ret = "true"

\* a protected packet went out
C4_Witness ==
  /\ Did("sendMedia") /\ mInitDone[last.t] /\ last.obs.status = "ok"
  /\ last.obs.out # <<>>
  /\ last.obs.out[1].tag.ok

\* the session keys of the canonical layout
\* initiator_key(16) | responder_key(16) | initiator_salt(14) | responder_salt(14)
InitiatorSessionKey(M) == Slice(M, 0, 16) \o Slice(M, 32, 14)

ResponderSessionKey(M) == Slice(M, 16, 16) \o Slice(M, 46, 14)

\* C5: the key derivation slices the 60 exported bytes by the canonical
\* layout: the client session key is M[0..15] followed by M[32..45], the
\* server session key M[16..31] followed by M[46..59].  (The client's
\* outbound and the server's inbound session hold the client session key,
\* the other two the server session key.)
C5_CanonicalSlicing ==
  /\ mInitDone["client"] =>
       /\ StreamKey(mSrtpOut["client"]) = InitiatorSessionKey(material)
       /\ StreamKey(mSrtpIn["client"]) = ResponderSessionKey(material)
  /\ mInitDone["server"] =>
       /\ StreamKey(mSrtpIn["server"]) = InitiatorSessionKey(material)
       /\ StreamKey(mSrtpOut["server"]) = ResponderSessionKey(material)

\* the pointers of this build into the material
Pointers == IF useGnutls THEN gnutls_srtp_get_keys ELSE OpensslPointers

\* the session key postHandshake assembles for the role of peer t
RoleKey(t) ==
  IF mIsClient(t) THEN clientSessionKey(material, Pointers)
  ELSE serverSessionKey(material, Pointers)

Remote(t) == IF t = "client" THEN "server" ELSE "client"

\* C6: once both ends have derived their keys from the same material, the
\* client's outbound key is the server's inbound key and the server's
\* outbound key is the client's inbound key; on each end the outbound key is
\* the session key of the local role and the inbound key that of the remote
\* role.
C6_RoleSymmetry ==
  /\ (mInitDone["client"] /\ mInitDone["server"]) =>
       /\ StreamKey(mSrtpOut["client"]) = StreamKey(mSrtpIn["server"])
       /\ StreamKey(mSrtpOut["server"]) = StreamKey(mSrtpIn["client"])
  /\ \A t \in Peers :
       mInitDone[t] =>
         /\ StreamKey(mSrtpOut[t]) = RoleKey(t)
         /\ StreamKey(mSrtpIn[t]) = RoleKey(Remote(t))

\* both ends have keys, and the two directions have different keys
C6_Witness ==
  /\ mInitDone["client"] /\ mInitDone["server"]
  /\ StreamKey(mSrtpOut["client"]) # StreamKey(mSrtpOut["server"])

\* C7: a call of postHandshake made after one that succeeded exports no
\* keying material, adds no stream to either session and leaves mInitDone,
\* the keys and the replay state of both sessions as they were.
C7_Idempotent ==
  [][(last'.op = "postHandshake" /\ mInitDone[last'.t]) =>
       /\ last'.obs.exports = 0
       /\ last'.obs.adds = 0
       /\ last'.obs.ret = "void"
       /\ mInitDone' = mInitDone
       /\ mSrtpIn' = mSrtpIn
       /\ mSrtpOut' = mSrtpOut]_vars

\* postHandshake returned at once on a transport that has already received
\* media
C7_Witness ==
  /\ Did("postHandshake") /\ mInitDone[last.t]
  /\ last.obs.exports = 0
  /\ mSrtpIn[last.t].rdb # {}

\* C8: mInitDone starts false, never goes back from true to false, whatever
\* sendMedia, incoming and postHandshake do and however srtp_protect and
\* srtp_unprotect fail, and goes from false to true only in a call of
\* postHandshake on that transport that exported the material, added both
\* streams and returned normally.
C8_Monotonic ==
  /\ \A t \in Peers : ~mInitDone[t]
  /\ [][\A t \in Peers :
          /\ mInitDone[t] => mInitDone'[t]
          /\ (~mInitDone[t] /\ mInitDone'[t]) =>
               /\ last'.op = "postHandshake" /\ last'.t = t
               /\ last'.obs.ret = "void"
               /\ last'.obs.exports = 1
               /\ last'.obs.adds = 2]_vars

\* srtp_protect failed on a transport with keys, which still has them
C8_Witness ==
  /\ Did("sendMedia") /\ last.obs.ret = "throw"
  /\ mInitDone[last.t]

\* the number of streams a session was given
Attached(ctx) == (IF ctx.tmpl # NoKey THEN 1 ELSE 0) + Len(ctx.list)

\* C9: over any sequence of calls of postHandshake, also when one fails
\* half-way (the inbound stream added, the outbound one refused) and another
\* follows, each session is given a key at most once and a key it has is
\* never replaced.
C9_AttachedOnce ==
  [][\A t \in Peers :
       /\ Attached(mSrtpIn'[t]) <= 1
       /\ Attached(mSrtpOut'[t]) <= 1
       /\ StreamKey(mSrtpIn[t]) # NoKey => StreamKey(mSrtpIn'[t]) = StreamKey(mSrtpIn[t])
       /\ StreamKey(mSrtpOut[t]) # NoKey => StreamKey(mSrtpOut'[t]) = StreamKey(mSrtpOut[t])]_vars

\* postHandshake was called again after a call that failed half-way: its
\* second srtp_add_stream on the inbound session was refused
C9_Witness ==
  /\ Did("postHandshake") /\ last.obs.ret = "throw"
  /\ last.obs.adds = 1 /\ last.obs.status = "bad_param"
  /\ Attached(mSrtpIn[last.t]) = 1
  /\ Attached(mSrtpOut[last.t]) = 0

\* a packet the inbound session of peer t accepts: protected with its key, no
\* byte corrupted, its sequence number not seen yet
Acceptable(t, m) ==
  /\ m.tag.ok
  /\ m.tag.key = StreamKey(mSrtpIn[t])
  /\ m.seq \notin mSrtpIn[t].rdb
  /\ m.size >= RTP_HEADER_LEN + SRTP_AUTH_TAG_LEN

\* C10: when mInitDone is true and srtp_unprotect fails on a packet of the
\* SRTP branch (a corrupted byte, a replay), incoming drops the packet: no
\* callback, no throw, mInitDone still true and the inbound session as it
\* was; and a packet of the SRTP branch that the session accepts is handed to
\* the callback, whatever failed before it.
C10_ReceiveIsolation ==
  [][(last'.op = "incoming" /\ mInitDone[last'.t]
        /\ last'.arg[1].size > 0 /\ last'.arg[1].first \in 20..63) =>
       /\ last'.obs.unprotect = 1
       /\ last'.obs.status # "ok" =>
            /\ last'.obs.recv = <<>>
            /\ last'.obs.ret = "void"
            /\ mInitDone' = mInitDone
            /\ mSrtpIn' = mSrtpIn
       /\ Acceptable(last'.t, last'.arg[1]) =>
            /\ last'.obs.status = "ok"
            /\ Len(last'.obs.recv) = 1
            /\ last'.obs.recv[1].seq = last'.arg[1].seq]_vars

\* a corrupted packet was just dropped by a transport with keys whose inbound
\* session can still accept a packet
C10_Witness ==
  /\ Did("incoming") /\ mInitDone[last.t]
  /\ last.obs.unprotect = 1 /\ last.obs.status = "auth_fail"
  /\ ~Arg.tag.ok /\ Arg.tag.key = StreamKey(mSrtpIn[last.t])
  /\ last.obs.recv = <<>>
  /\ mSrtpIn[last.t].rdb # Seqs

\* C11: on the SRTP branch of incoming, mSrtpRecvCallback is called once when
\* srtp_unprotect succeeds, with the packet cut to the length srtp_unprotect
\* returned (the tag removed), and not at all when it fails; a packet whose
\* sequence number the inbound session has accepted is not delivered again,
\* an accepted one is entered in the replay database, and that database
\* never loses an entry: over any sequence of calls a protected packet
\* reaches the callback at most once.
C11_DeliveredOnce ==
  [][/\ \A t \in Peers : mSrtpIn[t].rdb \subseteq mSrtpIn'[t].rdb
     /\ (last'.op = "incoming" /\ last'.obs.unprotect = 1) =>
          IF last'.obs.status = "ok"
          THEN /\ Len(last'.obs.recv) = 1
               /\ last'.obs.recv[1].size = last'.arg[1].size - SRTP_AUTH_TAG_LEN
               /\ last'.obs.recv[1].tag = NoTag
               /\ last'.obs.recv[1].seq = last'.arg[1].seq
               /\ last'.arg[1].seq \notin mSrtpIn[last'.t].rdb
               /\ last'.arg[1].seq \in mSrtpIn'[last'.t].rdb
          ELSE last'.obs.recv = <<>>]_vars

\* an intact packet under the right key was presented again and dropped as a
\* replay
C11_Witness ==
  /\ Did("incoming") /\ mInitDone[last.t]
  /\ last.obs.unprotect = 1 /\ last.obs.status = "replay_fail"
  /\ Arg.tag.ok /\ Arg.tag.key = StreamKey(mSrtpIn[last.t])
  /\ Arg.seq \in mSrtpIn[last.t].rdb
  /\ last.obs.recv = <<>>

\* C12: when mInitDone is true and srtp_protect fails in sendMedia, whatever
\* the status (the replay status too), sendMedia throws instead of returning
\* false and passes nothing to outgoing.
C12_ProtectFailureThrows ==
  (Did("sendMedia") /\ mInitDone[last.t] /\ last.obs.protect = 1
     /\ last.obs.status # "ok") =>
     /\ last.obs.ret = "throw"
     /\ last.obs.out = <<>>

\* srtp_protect answered with the replay status and sendMedia threw
C12_Witness ==
  /\ Did("sendMedia") /\ mInitDone[last.t]
  /\ last.obs.protect = 1 /\ last.obs.status = "replay_fail"
  /\ last.obs.ret = "throw"

\* C13: postCreation throws exactly when the TLS backend reports that it
\* could not set the SRTP profile, and returns normally when the backend
\* reports success.
C13_ThrowsIffBackendFails ==
  Did("postCreation") =>
     /\ last.obs.status = "fail" => last.obs.ret = "throw"
     /\ last.obs.status = "ok" => last.obs.ret = "void"

\* C14: when the export of the keying material fails, or gives a part of an
\* unexpected length, postHandshake throws, mInitDone stays false, the call
\* adds no stream to either session, and the transport goes on as one
\* without keys: the next sendMedia on it returns false and sends nothing,
\* the next incoming on it bypasses to DtlsTransport::incoming.
C14_ExportFailure ==
  [][/\ (last'.op = "postHandshake" /\ ~mInitDone[last'.t]
           /\ last'.arg[1].exp # "ok") =>
          /\ last'.obs.ret = "throw"
          /\ last'.obs.exports = 1
          /\ last'.obs.adds = 0
          /\ ~mInitDone'[last'.t]
          /\ mSrtpIn' = mSrtpIn
          /\ mSrtpOut' = mSrtpOut
     /\ (last.op = "postHandshake" /\ last.obs.exports = 1
           /\ last.arg[1].exp # "ok" /\ last'.t = last.t) =>
          /\ last'.op = "sendMedia" =>
               /\ last'.obs.ret = "false"
               /\ last'.obs.protect = 0
               /\ last'.obs.out = <<>>
          /\ last'.op = "incoming" =>
               /\ last'.obs.dtls = last'.arg
               /\ last'.obs.unprotect = 0]_vars

\* the export failed on a transport, which has neither keys nor mInitDone
C14_Witness ==
  /\ Did("postHandshake") /\ last.arg[1].exp # "ok"
  /\ last.obs.ret = "throw" /\ last.obs.exports = 1
  /\ ~mInitDone[last.t]
  /\ StreamKey(mSrtpIn[last.t]) = NoKey
  /\ StreamKey(mSrtpOut[last.t]) = NoKey

\* a buffer that holds zeros only
Scrubbed(buf) == \A i \in DOMAIN buf : buf[i] = 0

\* C16: once postHandshake has handed the session keys to libsrtp and
\* returned or thrown, the buffers it worked in (the 60 bytes of material and
\* the two session keys of 30 bytes) hold no key material any more.
C16_BuffersScrubbed ==
  (Did("postHandshake") /\ last.obs.adds >= 1) =>
     /\ Scrubbed(last.obs.scratch.material)
     /\ Scrubbed(last.obs.scratch.clientSessionKey)
     /\ Scrubbed(last.obs.scratch.serverSessionKey)

\* C15: for two transports that derived their keys from the same material
\* with opposite roles and any RTP packet m whose sequence number the
\* receiver has not accepted yet (libsrtp protects an index once, so every
\* packet srtp_protect yields is such a packet): the sender's protect path
\* gives m with the tag appended, and the receiver's unprotect path makes of
\* it exactly m again.
C15_RoundTrip ==
  \A s \in Peers :
    (mInitDone[s] /\ mInitDone[Remote(s)]) =>
      \A m \in SendMessages :
        (m.size >= RTP_HEADER_LEN /\ m.seq \notin mSrtpIn[Remote(s)].rdb) =>
          LET sent == protectAndSend(mSrtpOut[s], m, "ok")
              got == incomingSrtp(mSrtpIn[Remote(s)], sent.obs.out[1])
          IN /\ sent.obs.ret = "true"
             /\ sent.obs.out[1].size = m.size + SRTP_AUTH_TAG_LEN
             /\ got.obs.status = "ok"
             /\ got.obs.recv = <<m>>

\* a transport delivered a packet protected with the outbound key of its
\* peer, the two directions having different keys
C15_Witness ==
  /\ mInitDone["client"] /\ mInitDone["server"]
  /\ StreamKey(mSrtpOut["client"]) # StreamKey(mSrtpOut["server"])
  /\ Did("incoming") /\ last.obs.status = "ok"
  /\ Arg.tag.key = StreamKey(mSrtpOut[Remote(last.t)])
  /\ last.obs.recv = <<Resize([Arg EXCEPT !.tag = NoTag], Arg.size - SRTP_AUTH_TAG_LEN)>>

\* C18: in every state mInitDone = true implies that the inbound and the
\* outbound session both have their key; so every srtp_protect of sendMedia
\* and every srtp_unprotect of incoming comes after both keys were added, and
\* none finds a session without stream.
C18_ReadyMeansKeyed ==
  /\ \A t \in Peers :
       mInitDone[t] =>
         /\ StreamKey(mSrtpIn[t]) # NoKey
         /\ StreamKey(mSrtpOut[t]) # NoKey
  /\ ((Did("sendMedia") /\ last.obs.protect = 1)
        \/ (Did("incoming") /\ last.obs.unprotect = 1)) =>
       /\ StreamKey(mSrtpIn[last.t]) # NoKey
       /\ StreamKey(mSrtpOut[last.t]) # NoKey
       /\ last.obs.status # "no_ctx"

\* postHandshake has just set mInitDone on one end, both its keys added,
\* while the other end is half-way: inbound key added, mInitDone false
C18_Witness ==
  /\ Did("postHandshake") /\ last.obs.adds = 2 /\ last.obs.ret = "void"
  /\ mInitDone[last.t]
  /\ ~mInitDone[Remote(last.t)]
  /\ StreamKey(mSrtpIn[Remote(last.t)]) # NoKey
  /\ StreamKey(mSrtpOut[Remote(last.t)]) = NoKey

\* C19: between two transports with keys of the same material and opposite
\* roles, a datagram that sendMedia(m) of one passed to outgoing and that is
\* handed unchanged, for the first time, to incoming of the other takes the
\* SRTP branch and reaches mSrtpRecvCallback as m, whatever the first byte of
\* m; it is neither passed to DtlsTransport::incoming nor dropped.
C19_EndToEnd ==
  [][(/\ last.op = "sendMedia" /\ last.obs.out # <<>>
      /\ mInitDone[Remote(last.t)]
      /\ last'.op = "incoming" /\ last'.t = Remote(last.t)
      /\ last'.arg = last.obs.out
      /\ last'.arg[1].seq \notin mSrtpIn[last'.t].rdb) =>
       /\ last'.obs.unprotect = 1
       /\ last'.obs.recv = last.arg
       /\ last'.obs.dtls = <<>>]_vars

\* how often event e is in log
Count(log, e) == Cardinality({i \in DOMAIN log : log[i] = e})

\* the first place of event e in log (0 when it is not there)
Place(log, e) ==
  IF \E i \in DOMAIN log : log[i] = e
  THEN CHOOSE i \in DOMAIN log : log[i] = e /\ \A j \in 1..(i - 1) : log[j] # e
  ELSE 0

\* C17: over the life of a transport each session that srtp_create gave is
\* released exactly once and never used after its release: a session is
\* released only after it was created and at most once; a constructor that
\* fails leaves no object and no session (when the second srtp_create fails
\* the first session is released); a destroyed transport has released both,
\* after stop(); and a call that used libsrtp was made on a live object whose
\* sessions are not released.
C17_ReleasedOnce ==
  /\ \A t \in Peers :
       LET log == life[t].log
       IN /\ Count(log, "create_in") <= 1 /\ Count(log, "create_out") <= 1
          /\ Count(log, "dealloc_in") <= Count(log, "create_in")
          /\ Count(log, "dealloc_out") <= Count(log, "create_out")
          /\ Count(log, "dealloc_in") = 1 => Place(log, "create_in") < Place(log, "dealloc_in")
          /\ Count(log, "dealloc_out") = 1 => Place(log, "create_out") < Place(log, "dealloc_out")
          /\ life[t].phase \in {"failed", "dead"} =>
               /\ Count(log, "dealloc_in") = Count(log, "create_in")
               /\ Count(log, "dealloc_out") = Count(log, "create_out")
          /\ life[t].phase = "failed" => Count(log, "create_out") = 0
          /\ life[t].phase = "alive" =>
               /\ Count(log, "create_in") = 1 /\ Count(log, "create_out") = 1
               /\ Count(log, "dealloc_in") = 0 /\ Count(log, "dealloc_out") = 0
          /\ life[t].phase = "dead" =>
               /\ Count(log, "stop") = 1
               /\ Place(log, "stop") < Place(log, "dealloc_in")
               /\ Place(log, "stop") < Place(log, "dealloc_out")
  /\ (last.op \in {"sendMedia", "incoming", "postHandshake"}
        /\ last.obs.protect + last.obs.unprotect + last.obs.adds > 0) =>
       /\ life[last.t].phase = "alive"
       /\ Count(life[last.t].log, "dealloc_in") = 0
       /\ Count(life[last.t].log, "dealloc_out") = 0

\* one constructor failed at its second srtp_create and released the first
\* session; the other transport was used and then destroyed
C17_Witness ==
  \E t \in Peers :
    /\ life[t].phase = "failed"
    /\ life[t].log = <<"create_in", "dealloc_in">>
    /\ life[Remote(t)].phase = "dead"
    /\ mInitDone[Remote(t)]
    /\ mSrtpIn[Remote(t)].rdb # {}

====
